---- MODULE Spec2Model ----
(***************************************************************************)
(* TF1 payload generator (tf1_generator/builder.py, cli.py): the geometry   *)
(* encoder, the payload builder, scene ingestion, the transfer framing and *)
(* the state they work on.                                                 *)
(*                                                                         *)
(* Representation.  A hex string is a sequence of hex digits 0..15, a      *)
(* Python str used as text is a sequence of code points, bytes and the     *)
(* payload list are sequences of integers.  A Point is a record            *)
(* [x, y, color, start]; a color is <<r, g, b>> for a well-formed          *)
(* "#RRGGBB" string and <<>> for any other string.  An optional Point      *)
(* (Point | None) is a sequence of length 0 or 1.  Coordinates are         *)
(* integers; the canvas centre (w/2, h/2) is kept doubled so that          *)
(* half-integers stay integers.  math.atan / math.atan2 / math.sqrt are    *)
(* evaluated exactly (threshold tables, integer square root); the float    *)
(* result of the source differs only for skew right angles in _turn_bits   *)
(* (31 instead of 32).                                                     *)
(***************************************************************************)
EXTENDS Integers, Sequences, FiniteSets, TLC

\* ------------------------------------------------------------------ bounds
MaxScenes == 2

MaxChannels == 5

MaxPts == 3

\* length of the long scene list: one more than a byte can index
ManyCount == 257

\* ------------------------------------------------------- program constants
HeaderLen == 48

AngleScale == 10000000

TurnScale == 1000000

\* tan((n - 1/2) * pi / 512) * AngleScale, n = 1..128: the bearings at which
\* round(atan(dy/dx) / pi / 2 * 1024) steps from n-1 to n
TanHalfTick ==
    <<
       30680, 92042, 153411, 214791, 276187, 337604, 399047, 460520,
       522027, 583574, 645165, 706805, 768498, 830250, 892064, 953947,
       1015901, 1077933, 1140047, 1202248, 1264541, 1326931, 1389422, 1452020,
       1514729, 1577556, 1640504, 1703579, 1766785, 1830129, 1893616, 1957250,
       2021037, 2084983, 2149092, 2213371, 2277825, 2342459, 2407279, 2472290,
       2537500, 2602913, 2668535, 2734372, 2800431, 2866717, 2933236, 2999996,
       3067001, 3134260, 3201777, 3269561, 3337617, 3405952, 3474573, 3543488,
       3612703, 3682226, 3752063, 3822223, 3892713, 3963540, 4034712, 4106238,
       4178125, 4250382, 4323017, 4396038, 4469454, 4543273, 4617506, 4692160,
       4767245, 4842771, 4918748, 4995184, 5072090, 5149476, 5227353, 5305731,
       5384622, 5464035, 5543982, 5624476, 5705526, 5787147, 5869349, 5952145,
       6035548, 6119571, 6204228, 6289532, 6375497, 6462136, 6549466, 6637501,
       6726255, 6815745, 6905987, 6996997, 7088792, 7181388, 7274805, 7369059,
       7464169, 7560155, 7657035, 7754830, 7853560, 7953247, 8053911, 8155574,
       8258261, 8361993, 8466796, 8572693, 8679710, 8787873, 8897209, 9007745,
       9119510, 9232533, 9346843, 9462473, 9579453, 9697816, 9817596, 9938829
    >>

TurnTan ==
    <<
       24939, 74940, 125317, 176327, 228244, 281357, 335983, 392472,
       451218, 512671, 577351, 645869, 718952, 797474, 882506, 975373
    >>

TurnCot ==
    <<
       927864, 839099, 757470, 681788, 611087, 544570, 481574, 421535,
       363970, 308459, 254631, 202154, 150725, 100065, 49907
    >>

\* ---------------------------------------------------------------- helpers
Abs(n) == IF n < 0 THEN -n ELSE n

Max2(a, b) == IF a > b THEN a ELSE b

Min2(a, b) == IF a < b THEN a ELSE b

RECURSIVE Pow256(_)
Pow256(k) == IF k = 0 THEN 1 ELSE 256 * Pow256(k - 1)

RECURSIVE Isqrt(_)
Isqrt(n) ==
    IF n < 2 THEN n
    ELSE LET s == 2 * Isqrt(n \div 4)
         IN  IF (s + 1) * (s + 1) <= n THEN s + 1 ELSE s

\* <<q, r>> with a * b = q * d + r and 0 <= r < d, for a, b >= 0, without
\* forming the product a * b (no number beyond 2 * d + a is formed)
RECURSIVE MulDivMod(_, _, _)
MulDivMod(a, b, d) ==
    IF b = 0 THEN <<0, 0>>
    ELSE LET h == MulDivMod(a, b \div 2, d)
             t == 2 * h[2] + (b % 2) * a
         IN  <<2 * h[1] + t \div d, t % d>>

\* floor(num * scale / den), and 2 * scale for every quotient of 2 * scale or more
FloorRatio(num, den, scale) ==
    IF num \div den >= 2 THEN 2 * scale
    ELSE (num \div den) * scale + MulDivMod(scale, num % den, den)[1]

\* ceiling(num * scale / den), and 2 * scale for every quotient of 2 * scale or more
CeilRatio(num, den, scale) ==
    IF num \div den >= 2 THEN 2 * scale
    ELSE LET md == MulDivMod(scale, num % den, den)
         IN  (num \div den) * scale + md[1] + (IF md[2] # 0 THEN 1 ELSE 0)

\* the concatenation of the sequences ss[lo..hi], by halves
RECURSIVE ConcatRange(_, _, _)
ConcatRange(ss, lo, hi) ==
    IF lo > hi THEN <<>>
    ELSE IF lo = hi THEN ss[lo]
    ELSE LET mid == (lo + hi) \div 2
         IN  ConcatRange(ss, lo, mid) \o ConcatRange(ss, mid + 1, hi)

Concat(ss) == ConcatRange(ss, 1, Len(ss))

\* the sum of the numbers f[lo..hi], by halves
RECURSIVE RangeSum(_, _, _)
RangeSum(f, lo, hi) ==
    IF lo > hi THEN 0
    ELSE IF lo = hi THEN f[lo]
    ELSE LET mid == (lo + hi) \div 2
         IN  RangeSum(f, lo, mid) + RangeSum(f, mid + 1, hi)

Contains(s, x) == \E k \in 1..Len(s) : s[k] = x

\* index (0-based) of the first occurrence of x in s; list.index
FirstIndex(s, x) ==
    IF Contains(s, x)
    THEN (CHOOSE k \in 1..Len(s) : s[k] = x /\ \A q \in 1..(k - 1) : s[q] # x) - 1
    ELSE -1

ListIndex(s, x) == FirstIndex(s, x)

\* ------------------------------------------------------- byte conversions
\* _int_to_le: [(value >> (8 * i)) & 0xFF for i in range(size)]
_int_to_le(value, size) ==
    [k \in 1..size |-> (value \div Pow256(k - 1)) % 256]

\* variant: the low byte's two hex digits, then every digit above them
WordHexAll(word) ==
    IF word < 65536
    THEN << (word \div 16) % 16, word % 16, (word \div 4096) % 16, (word \div 256) % 16 >>
    ELSE << (word \div 16) % 16, word % 16,
            word \div 65536, (word \div 4096) % 16, (word \div 256) % 16 >>

\* f"{word:04x}"[-2:] + f"{word:04x}"[-4:-2]: the low byte's two hex digits,
\* then the two digits above them (digits beyond the fourth are dropped)
WordHexLE(word) ==
    << (word \div 16) % 16, word % 16, (word \div 4096) % 16, (word \div 256) % 16 >>

\* _hex_to_bytes: an odd-length string gets a leading "0", then digit pairs
_hex_to_bytes(hex_s) ==
    LET hs == IF Len(hex_s) % 2 = 1 THEN <<0>> \o hex_s ELSE hex_s
    IN  [k \in 1..(Len(hs) \div 2) |-> 16 * hs[2 * k - 1] + hs[2 * k]]

\* ------------------------------------------------------- geometry encoder
\* _center_point, doubled: {"x": w / 2.0, "y": h / 2.0}
_center_point(w, h) == [x2 |-> w, y2 |-> h]

\* round(atan(dy / dx) / pi / 2 * 1024) for dy, dx > 0
RECURSIVE AtanTicks(_, _)
AtanTicks(dy, dx) ==
    IF dy > dx THEN 256 - AtanTicks(dx, dy)
    ELSE LET ratio == FloorRatio(dy, dx, AngleScale)
         IN  Cardinality({n \in 1..128 : TanHalfTick[n] <= ratio})

_point_angle(center, p) ==
    LET px2 == 2 * p.x
        py2 == 2 * p.y
        dx == Abs(center.x2 - px2)
        dy == Abs(center.y2 - py2)
        a == AtanTicks(dy, dx)
    IN  IF center.x2 = px2 /\ center.y2 = py2 THEN 0
        ELSE IF center.x2 = px2 THEN (IF center.y2 > py2 THEN 256 ELSE 768)
        ELSE IF center.y2 = py2 THEN (IF center.x2 < px2 THEN 0 ELSE 512)
        ELSE IF center.x2 < px2 /\ center.y2 > py2 THEN a
        ELSE IF center.x2 > px2 /\ center.y2 > py2 THEN 512 - a
        ELSE IF center.x2 > px2 /\ center.y2 < py2 THEN 512 + a
        ELSE 1024 - a

\* round(theta / pi * 63) for the angle theta in (0, pi/2) whose tangent is
\* c / d, c, d > 0
TurnTicksAcute(c, d) ==
    LET tangent == FloorRatio(c, d, TurnScale)
        cotangent == CeilRatio(d, c, TurnScale)
    IN  Cardinality({n \in 1..16 : TurnTan[n] <= tangent})
        + Cardinality({n \in 1..15 : cotangent <= TurnCot[n]})

\* _turn_bits: a1, a2 are the directions cur->prev and cur->next (y up);
\* d is the angle between them, reflected into [0, pi].  atan2(0, 0) = 0,
\* the direction (1, 0).  round(31.5) = 32 (round half to even).
_turn_bits(prev_p, cur_p, next_p) ==
    LET u0 == <<prev_p.x - cur_p.x, cur_p.y - prev_p.y>>
        v0 == <<next_p.x - cur_p.x, cur_p.y - next_p.y>>
        u == IF u0 = <<0, 0>> THEN <<1, 0>> ELSE u0
        v == IF v0 = <<0, 0>> THEN <<1, 0>> ELSE v0
        cross == Abs(u[1] * v[2] - u[2] * v[1])
        dot == u[1] * v[1] + u[2] * v[2]
        ticks == IF cross = 0 THEN (IF dot >= 0 THEN 0 ELSE 63)
                 ELSE IF dot = 0 THEN 32
                 ELSE IF dot < 0 THEN 63 - TurnTicksAcute(cross, -dot)
                 ELSE TurnTicksAcute(cross, dot)
    IN  ticks * 1024

_color_bits(color_hex) ==
    LET c == IF Len(color_hex) # 3 THEN <<255, 255, 255>> ELSE color_hex
        r == c[1]
        g == c[2]
        b == c[3]
        mx == Max2(r, Max2(g, b))
    IN  (IF 2 * b > mx THEN 32768 ELSE 0)
        + (IF 2 * g > mx THEN 16384 ELSE 0)
        + (IF 2 * r > mx THEN 8192 ELSE 0)

\* round(sqrt(dx*dx + dy*dy) * 0.98) with dx = |x - cx| / (canvas_size-1) * 4095
\* and dy = |y - cy| / (canvas_size-1) * 4095.  With X = |2x - w|, Y = |2y - h|
\* the radius is 40131 * sqrt(X*X + Y*Y) / (20 * (canvas_size-1)); its rounding
\* is the largest n with (2n - 1)^2 <= 40131^2 * (X*X + Y*Y) / (100 * (canvas_size-1)^2),
\* except that round() takes an exact half to the even neighbour
Radius(cur_p, center, canvas_size) ==
    LET X == Abs(2 * cur_p.x - center.x2)
        Y == Abs(2 * cur_p.y - center.y2)
        S == X * X + Y * Y
        A2 == 40131 * 40131
        D == 100 * (canvas_size - 1) * (canvas_size - 1)
        md == MulDivMod(A2 % D, S, D)
        F == (A2 \div D) * S + md[1]
        m == Isqrt(F)
        n == (m + 1) \div 2
        half == m % 2 = 1 /\ m * m = F /\ md[2] = 0
    IN  IF half /\ n % 2 = 1 THEN n - 1 ELSE n

_encode_step(is_start, prev_p, cur_p, next_p, center, canvas_size) ==
    LET colour == IF (~is_start) /\ prev_p # <<>>
                  THEN _color_bits(prev_p[1].color) ELSE 0
        first_word == colour + Radius(cur_p, center, canvas_size)
        turn == IF (~is_start) /\ prev_p # <<>> /\ next_p # <<>> /\ ~next_p[1].start
                THEN _turn_bits(prev_p[1], cur_p, next_p[1]) ELSE 0
        second_word == turn + _point_angle(center, cur_p)
    IN  WordHexLE(first_word) \o WordHexLE(second_word)

\* variant: the earliest start point at or before idx
_find_earliest_start(points, idx) ==
    LET starts == {q \in 1..(idx + 1) : points[q].start}
    IN  IF starts = {} THEN <<>>
        ELSE <<points[CHOOSE q \in starts : \A r \in starts : q <= r]>>

\* _find_first_start: the nearest start point at or before idx (0-based), or None
RECURSIVE _find_first_start(_, _)
_find_first_start(points, idx) ==
    IF idx < 0 THEN <<>>
    ELSE IF points[idx + 1].start THEN <<points[idx + 1]>>
    ELSE _find_first_start(points, idx - 1)

\* variant: closes at the end of the pattern only
ClosesAtEndOnly(pattern, k) ==
    pattern.close /\ k = Len(pattern.points) - 1

\* the condition under which encode_patterns runs the closing step at index k
ClosesAt(pattern, k) ==
    LET pts == pattern.points
    IN  pattern.close
        /\ ((k < Len(pts) - 1 /\ pts[k + 2].start) \/ k = Len(pts) - 1)

\* variant: the closing vertex returns to the earliest start point
EncodePointEarliest(pattern, k, center, canvas_w) ==
    LET pts == pattern.points
        cur_p == pts[k + 1]
        prev_p == IF k > 0 THEN <<pts[k]>> ELSE <<>>
        next_p == IF k < Len(pts) - 1 THEN <<pts[k + 2]>> ELSE <<>>
        vertex == _encode_step(cur_p.start, prev_p, cur_p, next_p, center, canvas_w)
        start_point == _find_earliest_start(pts, k)
    IN  IF ClosesAt(pattern, k) /\ start_point # <<>>
        THEN vertex \o _encode_step(FALSE, <<cur_p>>, start_point[1], next_p, center, canvas_w)
        ELSE vertex

\* one iteration of the inner loop of encode_patterns, at index k (0-based):
\* the vertex of pts[k] and, at the end of a closed sub-path, the closing vertex
EncodePoint(pattern, k, center, canvas_w) ==
    LET pts == pattern.points
        cur_p == pts[k + 1]
        prev_p == IF k > 0 THEN <<pts[k]>> ELSE <<>>
        next_p == IF k < Len(pts) - 1 THEN <<pts[k + 2]>> ELSE <<>>
        vertex == _encode_step(cur_p.start, prev_p, cur_p, next_p, center, canvas_w)
        start_point == _find_first_start(pts, k)
    IN  IF ClosesAt(pattern, k) /\ start_point # <<>>
        THEN vertex \o _encode_step(FALSE, <<cur_p>>, start_point[1], next_p, center, canvas_w)
        ELSE vertex

EncodePattern(pattern, center, canvas_w) ==
    Concat([k \in 1..Len(pattern.points) |-> EncodePoint(pattern, k - 1, center, canvas_w)])

encode_patterns(patterns, canvas_w, canvas_h) ==
    LET center == _center_point(canvas_w, canvas_h)
    IN  Concat([j \in 1..Len(patterns) |-> EncodePattern(patterns[j], center, canvas_w)])

\* _contains_cjk: some character in U+4E00..U+9FFF (19968..40959)
_contains_cjk(value) == \E k \in 1..Len(value) : 19968 <= value[k] /\ value[k] <= 40959

\* ------------------------------------------------------------------ state
VARIABLES
    scenes,              \* build_tf1_payload argument: list[Scene]
    opts,                \* build_tf1_payload argument: BuildOptions
    pc,                  \* position inside build_tf1_payload
    payload,             \* the local list payload
    unique_pattern_hex,  \* the local list of distinct encoder outputs
    scene_rows,          \* the local list of (pattern_hex, scene)
    channel_count,       \* the local channel_count
    i,                   \* index of the running loop
    rec_at,              \* per scene record: payload index at which the record begins
    sel_at,              \* per scene record: payload index written by line 213, -1 if none
    patterns,            \* encode_patterns argument: list[Pattern]
    epc,                 \* position inside encode_patterns
    pj,                  \* index of the pattern being encoded
    pk,                  \* index of the point being encoded
    out,                 \* the local string out of encode_patterns
    data,                \* cli.main: the parsed input document
    default_channels,    \* cli.main: the channel defaults of the device config
    chan_ids,            \* per ingested scene: which list object its channel_values is
    chunk_size,          \* chunk size: args.chunk_size / chunk_payload argument
    cli,                 \* position inside cli.main
    gen,                 \* position inside the generator chunk_payload
    offset,              \* the loop variable offset of chunk_payload
    chunks,              \* the slices chunk_payload has yielded so far
    frames,              \* the frames cli.main has built so far, in order
    fcall,               \* a call of build_handshake_frame / build_chunk_frame
    fret                 \* what that call returned or raised

vars == << scenes, opts, pc, payload, unique_pattern_hex, scene_rows,
           channel_count, i, rec_at, sel_at, patterns, epc, pj, pk, out,
           data, default_channels, chan_ids, chunk_size, cli, gen, offset, chunks, frames,
           fcall, fret >>

buildVars == << scenes, pc, payload, unique_pattern_hex, scene_rows,
                channel_count, i, rec_at, sel_at >>

encVars == << patterns, epc, pj, pk, out >>

genVars == << chunk_size, gen, offset, chunks >>

ioVars == << data, default_channels, chan_ids, cli, genVars, frames, fcall, fret >>

\* ----------------------------------------------------------------- inputs
White == <<255, 255, 255>>

Red == <<255, 0, 0>>

Pt(x, y, c, s) == [x |-> x, y |-> y, color |-> c, start |-> s]

\* an 8 x 8 canvas: centre (4, 4)
Triangle == << Pt(0, 0, White, TRUE), Pt(8, 4, Red, FALSE), Pt(4, 8, White, FALSE) >>

Segment == << Pt(4, 4, Red, TRUE), Pt(8, 8, Red, FALSE) >>

ScenePatternLists ==
    { <<>>,
      << [points |-> Triangle, close |-> TRUE] >>,
      << [points |-> Triangle, close |-> FALSE] >>,
      << [points |-> Segment, close |-> FALSE], [points |-> Triangle, close |-> TRUE] >> }

\* duration and play mode with a base for the channel values: durations of one
\* and two bytes, play modes below and above 255
SceneProfiles ==
    { [time_ms |-> 25, play_mode |-> 2, channel_base |-> -85],
      [time_ms |-> 2579, play_mode |-> 257, channel_base |-> 20] }

\* a channel vector of length n with values below 0, inside and above 0..255
ChannelVec(n, base) == [j \in 1..n |-> base + 80 * j]

SceneSet(n) ==
    { [time_ms |-> t.time_ms, play_mode |-> t.play_mode, patterns |-> p,
       channel_values |-> ChannelVec(n, t.channel_base)] :
        t \in SceneProfiles, p \in ScenePatternLists }

\* no channels at all, or three and more
ChannelCounts == {0} \cup 3..MaxChannels

SeqsUpTo(S, n) == UNION { [1..m -> S] : m \in 0..n }

\* "A1", "A" followed by U+4E2D (CJK) and "A" followed by U+0416 (Cyrillic)
NameSet == { <<65, 49>>, <<65, 20013>>, <<65, 1046>> }

\* "DQ" and "DQF6_LS01"
DeviceSet == { <<68, 81>>, <<68, 81, 70, 54, 95, 76, 83, 48, 49>> }

\* a short device tag with the plain and the Cyrillic name, the long one
\* with the CJK name
OptSet ==
    { o \in { [tf1_name |-> n, weight |-> 258, device_type |-> d,
               canvas_width |-> 8, canvas_height |-> 8] : n \in NameSet, d \in DeviceSet } :
        (Len(o.device_type) > 4) = _contains_cjk(o.tf1_name) }

EncIdle ==
    /\ patterns = <<>>
    /\ epc = "idle"
    /\ pj = 0
    /\ pk = 0
    /\ out = <<>>

\* no document, no generator, no frame call
IoIdle ==
    /\ data = <<>>
    /\ default_channels = <<>>
    /\ chan_ids = <<>>
    /\ chunk_size = 0
    /\ cli = "idle"
    /\ gen = "idle"
    /\ offset = 0
    /\ chunks = <<>>
    /\ frames = <<>>
    /\ fcall = <<>>
    /\ fret = <<>>

\* every scene of one build has the same number of channel values (data model)
Init ==
    /\ \E n \in ChannelCounts : scenes \in SeqsUpTo(SceneSet(n), MaxScenes)
    /\ opts \in OptSet
    /\ pc = "start"
    /\ payload = <<>>
    /\ unique_pattern_hex = <<>>
    /\ scene_rows = <<>>
    /\ channel_count = 0
    /\ i = 0
    /\ rec_at = <<>>
    /\ sel_at = <<>>
    /\ EncIdle
    /\ IoIdle

\* ------------------------------------------------------ build_tf1_payload
Take(s, n) == SubSeq(s, 1, Min2(n, Len(s)))

\* if not scenes: raise ValueError
RejectEmpty ==
    /\ pc = "start"
    /\ scenes = <<>>
    /\ pc' = "error"
    /\ UNCHANGED << scenes, opts, payload, unique_pattern_hex, scene_rows,
                    channel_count, i, rec_at, sel_at, encVars, ioVars >>

\* the first 20 header bytes: filler, device tag padded to offset 16, {48,0,0,0}
DeviceHeader(device_type) ==
    LET dev == Take(device_type, 4)
    IN  [k \in 1..12 |-> 255] \o dev \o [k \in 1..(16 - (12 + Len(dev))) |-> 255]
        \o <<48, 0, 0, 0>>

BeginPayload ==
    /\ pc = "start"
    /\ scenes # <<>>
    /\ payload' = DeviceHeader(opts.device_type)
    /\ unique_pattern_hex' = <<>>
    /\ scene_rows' = <<>>
    /\ channel_count' = 0
    /\ i' = 0
    /\ pc' = "dedup"
    /\ UNCHANGED << scenes, opts, rec_at, sel_at, encVars, ioVars >>

\* variant: no membership test
DedupAlways(unique, pattern_hex) == Append(unique, pattern_hex)

\* if pattern_hex not in unique_pattern_hex: unique_pattern_hex.append(pattern_hex)
Dedup(unique, pattern_hex) ==
    IF Contains(unique, pattern_hex) THEN unique ELSE Append(unique, pattern_hex)

\* one iteration of the loop over scenes
DedupScene ==
    /\ pc = "dedup"
    /\ i < Len(scenes)
    /\ LET scene == scenes[i + 1]
           pattern_hex == encode_patterns(scene.patterns, opts.canvas_width, opts.canvas_height)
       IN  /\ unique_pattern_hex' = Dedup(unique_pattern_hex, pattern_hex)
           /\ channel_count' = Len(scene.channel_values)
           /\ scene_rows' = Append(scene_rows, [pattern_hex |-> pattern_hex, scene |-> scene])
    /\ i' = i + 1
    /\ UNCHANGED << scenes, opts, pc, payload, rec_at, sel_at, encVars, ioVars >>

\* variant: the table's leading entry is not counted
IndexTableStartNoEnd(unique) == HeaderLen + 4 * Len(unique)

IndexTableStart(unique) == HeaderLen + 4 * Len(unique) + 4

\* the remaining 28 header bytes
CountsHeader(unique, n_scenes, ch_count, weight) ==
    _int_to_le(IndexTableStart(unique), 4)
    \o <<0, 0, ch_count + 3, 0>>
    \o _int_to_le(n_scenes, 2)
    \o _int_to_le(Len(unique), 2)
    \o _int_to_le(weight, 2)
    \o [k \in 1..14 |-> 0]

WriteCounts ==
    /\ pc = "dedup"
    /\ i = Len(scenes)
    /\ payload' = payload \o CountsHeader(unique_pattern_hex, Len(scenes), channel_count, opts.weight)
    /\ pc' = "table"
    /\ UNCHANGED << scenes, opts, unique_pattern_hex, scene_rows, channel_count, i,
                    rec_at, sel_at, encVars, ioVars >>

\* variant: one byte short per record
SceneBlockEndShort(unique, ch_count, n_scenes) ==
    IndexTableStart(unique) + (ch_count + 2) * n_scenes

SceneBlockEnd(unique, ch_count, n_scenes) ==
    IndexTableStart(unique) + (ch_count + 3) * n_scenes

\* variant: counts hex digits instead of bytes
PEndHex(unique, base, k) ==
    base + RangeSum([j \in 1..Len(unique) |-> Len(unique[j])], 1, k)

\* the end offset after the first k unique blobs: p_end += len(pattern_hex) // 2
PEnd(unique, base, k) ==
    base + RangeSum([j \in 1..Len(unique) |-> Len(unique[j]) \div 2], 1, k)

OffsetTable(unique, scene_block_end) ==
    Concat([k \in 1..(Len(unique) + 1) |-> _int_to_le(PEnd(unique, scene_block_end, k - 1), 4)])

WriteOffsetTable ==
    /\ pc = "table"
    /\ payload' = payload
          \o OffsetTable(unique_pattern_hex,
                         SceneBlockEnd(unique_pattern_hex, channel_count, Len(scenes)))
    /\ i' = 0
    /\ rec_at' = <<>>
    /\ sel_at' = <<>>
    /\ pc' = "records"
    /\ UNCHANGED << scenes, opts, unique_pattern_hex, scene_rows, channel_count, encVars, ioVars >>

\* variant: the last scene keeps its play mode
PlayModeKeep(scene, idx, n_rows) == scene.play_mode

\* if i == len(scene_rows) - 1: play_mode = 0
PlayModeOf(scene, idx, n_rows) == IF idx = n_rows - 1 THEN 0 ELSE scene.play_mode

Clamp(v) == Max2(0, Min2(255, v)) % 256

\* duration, play mode and channel bytes of one scene record
RecordBytes(scene, idx, n_rows) ==
    _int_to_le(scene.time_ms \div 10, 2)
    \o << PlayModeOf(scene, idx, n_rows) % 256 >>
    \o [k \in 1..Len(scene.channel_values) |-> Clamp(scene.channel_values[k])]

\* variant: the last byte of the record
SelectorIndexLast(payload_len, ch_count) == payload_len - 1

\* payload[-channel_count + 3]: the 0-based index a negative index resolves to
SelectorIndex(payload_len, ch_count) == payload_len - ch_count + 3

WriteSceneRecord ==
    /\ pc = "records"
    /\ i < Len(scene_rows)
    /\ LET row == scene_rows[i + 1]
           pattern_index == ListIndex(unique_pattern_hex, row.pattern_hex)
           plain == payload \o RecordBytes(row.scene, i, Len(scene_rows))
           at == SelectorIndex(Len(plain), channel_count)
       IN  IF channel_count > 3
           THEN IF at < 0
                THEN /\ pc' = "error"
                     /\ payload' = plain
                     /\ sel_at' = sel_at
                ELSE /\ pc' = pc
                     /\ payload' = [plain EXCEPT ![at + 1] = pattern_index % 256]
                     /\ sel_at' = Append(sel_at, at)
           ELSE /\ pc' = pc
                /\ payload' = plain
                /\ sel_at' = Append(sel_at, -1)
    /\ rec_at' = Append(rec_at, Len(payload))
    /\ i' = i + 1
    /\ UNCHANGED << scenes, opts, unique_pattern_hex, scene_rows, channel_count, encVars, ioVars >>

BlobBytes(unique) == Concat([k \in 1..Len(unique) |-> _hex_to_bytes(unique[k])])

WriteBlobs ==
    /\ pc = "records"
    /\ i = Len(scene_rows)
    /\ payload' = payload \o BlobBytes(unique_pattern_hex)
    /\ pc' = "trailer"
    /\ UNCHANGED << scenes, opts, unique_pattern_hex, scene_rows, channel_count, i,
                    rec_at, sel_at, encVars, ioVars >>

\* "display:"
DisplayTag == <<100, 105, 115, 112, 108, 97, 121, 58>>

\* "MyPro"
FallbackName == <<77, 121, 80, 114, 111>>

DisplayName(tf1_name) == IF _contains_cjk(tf1_name) THEN FallbackName ELSE tf1_name

Trailer(tf1_name) == <<0>> \o DisplayTag \o DisplayName(tf1_name)

WriteTrailer ==
    /\ pc = "trailer"
    /\ payload' = payload \o Trailer(opts.tf1_name)
    /\ pc' = "convert"
    /\ UNCHANGED << scenes, opts, unique_pattern_hex, scene_rows, channel_count, i,
                    rec_at, sel_at, encVars, ioVars >>

\* return bytes(payload): ValueError unless every element is in range(256)
Return ==
    /\ pc = "convert"
    /\ pc' = IF \A k \in 1..Len(payload) : payload[k] \in 0..255 THEN "done" ELSE "error"
    /\ UNCHANGED << scenes, opts, payload, unique_pattern_hex, scene_rows,
                    channel_count, i, rec_at, sel_at, encVars, ioVars >>

Next ==
    \/ RejectEmpty
    \/ BeginPayload
    \/ DedupScene
    \/ WriteCounts
    \/ WriteOffsetTable
    \/ WriteSceneRecord
    \/ WriteBlobs
    \/ WriteTrailer
    \/ Return

Spec == Init /\ [][Next]_vars

\* -------------------------------------------------- encode_patterns, stepwise
BuildIdle ==
    /\ scenes = <<>>
    /\ pc = "idle"
    /\ payload = <<>>
    /\ unique_pattern_hex = <<>>
    /\ scene_rows = <<>>
    /\ channel_count = 0
    /\ i = 0
    /\ rec_at = <<>>
    /\ sel_at = <<>>

EncCoords == { <<0, 0>>, <<8, 4>>, <<4, 4>> }

EncPoints == { Pt(c[1], c[2], col, s) : c \in EncCoords, col \in {White, Red}, s \in BOOLEAN }

EncPatterns(n) == { [points |-> ps, close |-> c] : ps \in SeqsUpTo(EncPoints, n), c \in BOOLEAN }

\* one pattern of up to MaxPts points, or two patterns of at most one point each
EncInputs ==
    {<<>>}
    \cup { <<p>> : p \in EncPatterns(MaxPts) }
    \cup { <<p, q>> : p \in EncPatterns(1), q \in EncPatterns(1) }

EncInit ==
    /\ patterns \in EncInputs
    /\ opts \in { o \in OptSet : o.tf1_name = <<65, 49>> /\ Len(o.device_type) = 2 }
    /\ epc = "loop"
    /\ pj = 0
    /\ pk = 0
    /\ out = <<>>
    /\ BuildIdle
    /\ IoIdle

\* one iteration of "for i, cur_p in enumerate(pts)"
EncodeNextPoint ==
    /\ epc = "loop"
    /\ pj < Len(patterns)
    /\ pk < Len(patterns[pj + 1].points)
    /\ out' = out \o EncodePoint(patterns[pj + 1], pk,
                                 _center_point(opts.canvas_width, opts.canvas_height),
                                 opts.canvas_width)
    /\ pk' = pk + 1
    /\ UNCHANGED << opts, patterns, epc, pj, buildVars, ioVars >>

\* the inner loop is exhausted: next iteration of "for pattern in patterns"
EncodeNextPattern ==
    /\ epc = "loop"
    /\ pj < Len(patterns)
    /\ pk = Len(patterns[pj + 1].points)
    /\ pj' = pj + 1
    /\ pk' = 0
    /\ UNCHANGED << opts, patterns, epc, out, buildVars, ioVars >>

EncodeReturn ==
    /\ epc = "loop"
    /\ pj = Len(patterns)
    /\ epc' = "done"
    /\ UNCHANGED << opts, patterns, pj, pk, out, buildVars, ioVars >>

NextEncode ==
    \/ EncodeNextPoint
    \/ EncodeNextPattern
    \/ EncodeReturn

SpecEncode == EncInit /\ [][NextEncode]_vars


\* ------------------------------------------------- a build with many scenes
\* ManyCount scenes of one point each, all at different places of a 16 x 16
\* canvas, so that every scene has a pattern blob of its own
ManyScenes ==
    [r \in 1..ManyCount |->
        [time_ms |-> 25, play_mode |-> 0,
         patterns |-> << [points |-> << Pt((r - 1) % 17, (r - 1) \div 17, White, TRUE) >>,
                          close |-> FALSE] >>,
         channel_values |-> <<10, 40, 0, 0>>]]

ManyInit ==
    /\ scenes \in {<<>>, ManyScenes}
    /\ opts = [tf1_name |-> <<65, 49>>, weight |-> 1, device_type |-> <<68, 81>>,
               canvas_width |-> 16, canvas_height |-> 16]
    /\ pc = "start"
    /\ payload = <<>>
    /\ unique_pattern_hex = <<>>
    /\ scene_rows = <<>>
    /\ channel_count = 0
    /\ i = 0
    /\ rec_at = <<>>
    /\ sel_at = <<>>
    /\ EncIdle
    /\ IoIdle

SpecMany == ManyInit /\ [][Next]_vars

\* ------------------------------------------------------- transfer framing
FRAME_HEAD == 170

FRAME_TAIL == 90

CMD_TF1_HANDSHAKE == 17

CMD_TF1_CHUNK == 18

\* "TF1", the default tag
DefaultTag == <<84, 70, 49>>

\* bytearray(n)
Zeros(n) == [k \in 1..n |-> 0]

\* s[a:b] for 0 <= a
PySlice(s, a, b) == SubSeq(s, Min2(a, Len(s)) + 1, Min2(b, Len(s)))

\* frame[a:b] = v on a bytearray: the slice is replaced, whatever the length of v
SliceAssign(frame, a, b, v) ==
    LET lo == Min2(a, Len(frame))
        hi == Max2(lo, Min2(b, Len(frame)))
    IN  SubSeq(frame, 1, lo) \o v \o SubSeq(frame, hi + 1, Len(frame))

\* frame[idx] = v for an index inside the bytearray
SetItem(frame, idx, v) == [frame EXCEPT ![idx + 1] = v]

\* payload[offset : offset + chunk_size] reading one byte less
ChunkSliceShort(bytes, off, size) == PySlice(bytes, off, off + size - 1)

\* payload[offset : offset + chunk_size]
ChunkSlice(bytes, off, size) == PySlice(bytes, off, off + size)

\* total_length.to_bytes(4, "big")
ToBytes4Big(value) == [k \in 1..4 |-> _int_to_le(value, 4)[5 - k]]

\* total_length.to_bytes(4, "little") for 0 <= total_length < 2^32
ToBytes4(value) == _int_to_le(value, 4)

\* what a call gives: the bytes returned, or the exception raised
Returned(bytes) == [raised |-> "", frame |-> bytes]

Raised(exc) == [raised |-> exc, frame |-> <<>>]

\* lines 234-246; to_bytes raises OverflowError outside 0 .. 2^32 - 1
build_handshake_frame(total_length, tag, file_type) ==
    LET f0 == [k \in 1..16 |->
                 CASE k = 1 -> FRAME_HEAD
                   [] k = 2 -> CMD_TF1_HANDSHAKE
                   [] k = 4 -> FRAME_TAIL
                   [] k = 5 -> 16
                   [] OTHER -> 0]
        f1 == SliceAssign(f0, 8, 11, Take(tag, 3))
    IN  IF Len(f1) <= 11 THEN Raised("IndexError")
        ELSE IF total_length < 0 THEN Raised("OverflowError")
        ELSE Returned(SliceAssign(SetItem(f1, 11, file_type % 256), 12, 16,
                                  ToBytes4(total_length)))

\* lines 250-263; frame[11] raises IndexError when the tag slice left
\* fewer than 12 bytes
build_chunk_frame(sequence, chunk, tag, file_type) ==
    LET frame_len == 12 + Len(chunk)
        f0 == [k \in 1..frame_len |->
                 CASE k = 1 -> FRAME_HEAD
                   [] k = 2 -> CMD_TF1_CHUNK
                   [] k = 4 -> FRAME_TAIL
                   [] k = 5 -> frame_len % 256
                   [] k = 6 -> (frame_len \div 256) % 256
                   [] k = 7 -> sequence % 256
                   [] k = 8 -> (sequence \div 256) % 256
                   [] OTHER -> 0]
        f1 == SliceAssign(f0, 8, 11, Take(tag, 3))
    IN  IF Len(f1) <= 11 THEN Raised("IndexError")
        ELSE Returned(SliceAssign(SetItem(f1, 11, file_type % 256), 12, Len(f1), chunk))

\* ------------------------------------------------ chunk_payload, a generator
\* a generator that hands out a slice before it raises
GenRejectAfterSlice ==
    /\ gen = "new"
    /\ chunk_size <= 0
    /\ gen' = "error"
    /\ chunks' = Append(chunks, ChunkSlice(payload, 0, chunk_size))
    /\ UNCHANGED << chunk_size, offset >>

\* the first next() of a generator made with chunk_size <= 0: ValueError
GenReject ==
    /\ gen = "new"
    /\ chunk_size <= 0
    /\ gen' = "error"
    /\ UNCHANGED << chunk_size, offset, chunks >>

\* one iteration of "for offset in range(0, len(payload), chunk_size): yield"
GenYield ==
    /\ gen \in {"new", "run"}
    /\ chunk_size > 0
    /\ offset < Len(payload)
    /\ chunks' = Append(chunks, ChunkSlice(payload, offset, chunk_size))
    /\ offset' = offset + chunk_size
    /\ gen' = "run"
    /\ UNCHANGED chunk_size

\* the range is exhausted: StopIteration
GenStop ==
    /\ gen \in {"new", "run"}
    /\ chunk_size > 0
    /\ offset >= Len(payload)
    /\ gen' = "done"
    /\ UNCHANGED << chunk_size, offset, chunks >>

apiRest == << scenes, opts, pc, payload, unique_pattern_hex, scene_rows, channel_count,
              i, rec_at, sel_at, encVars, data, default_channels, chan_ids, cli, frames >>

ChunkReject == GenReject /\ UNCHANGED << apiRest, fcall, fret >>

ChunkYield == GenYield /\ UNCHANGED << apiRest, fcall, fret >>

ChunkStop == GenStop /\ UNCHANGED << apiRest, fcall, fret >>

\* ------------------------------------------------- the two frame builders
CallHandshake ==
    /\ fcall # <<>>
    /\ fcall.fn = "build_handshake_frame"
    /\ fret = <<>>
    /\ fret' = << build_handshake_frame(fcall.total_length, fcall.tag, fcall.file_type) >>
    /\ UNCHANGED << apiRest, genVars, fcall >>

CallChunkFrame ==
    /\ fcall # <<>>
    /\ fcall.fn = "build_chunk_frame"
    /\ fret = <<>>
    /\ fret' = << build_chunk_frame(fcall.sequence, fcall.chunk, fcall.tag, fcall.file_type) >>
    /\ UNCHANGED << apiRest, genVars, fcall >>

\* --------------------------------- the public functions, called one at a time
MaxBytes == 6

\* byte strings of every length up to MaxBytes
BytesOfLen(n) == [k \in 1..n |-> (37 * k + 200) % 256]

ChunkSizes == -1..(MaxBytes + 1)

\* tags shorter than, as long as and longer than the three-byte tag field
TagSet == { Take(<<84, 70, 49, 50>>, n) : n \in 0..4 }

FileTypes == { 0, 255, 257 }

\* 0, 16, 0x00010203, 2^31 - 1 and one negative length
TotalLengths == { -1, 0, 16, 66051, 2147483647 }

\* below, at and above the 16-bit width, and a negative one
Sequences == { -1, 1, 513, 65538 }

HandshakeCalls ==
    { [fn |-> "build_handshake_frame", total_length |-> t, tag |-> g, file_type |-> f] :
        t \in TotalLengths, g \in TagSet, f \in FileTypes }

ChunkFrameCalls ==
    { [fn |-> "build_chunk_frame", sequence |-> q, chunk |-> BytesOfLen(n), tag |-> g,
       file_type |-> f] :
        q \in Sequences, n \in {0, 1, 2, MaxBytes}, g \in TagSet, f \in FileTypes }

\* one scene of four channels
ApiScene ==
    [time_ms |-> 25, play_mode |-> 2, patterns |-> << [points |-> Triangle, close |-> TRUE] >>,
     channel_values |-> <<10, 40, 0, 0>>]

ApiBuildIdle ==
    /\ unique_pattern_hex = <<>>
    /\ scene_rows = <<>>
    /\ channel_count = 0
    /\ i = 0
    /\ rec_at = <<>>
    /\ sel_at = <<>>
    /\ opts \in { o \in OptSet : o.tf1_name = <<65, 49>> /\ Len(o.device_type) = 2 }
    /\ data = <<>>
    /\ default_channels = <<>>
    /\ chan_ids = <<>>
    /\ cli = "idle"
    /\ offset = 0
    /\ chunks = <<>>
    /\ frames = <<>>
    /\ fret = <<>>
    /\ EncIdle

\* build_tf1_payload(scenes, opts)
ApiInitBuild ==
    /\ scenes \in { <<>>, <<ApiScene>> }
    /\ pc = "start"
    /\ payload = <<>>
    /\ chunk_size = 0
    /\ gen = "idle"
    /\ fcall = <<>>

\* chunk_payload(payload, chunk_size): the generator object exists, nothing ran
ApiInitChunk ==
    /\ scenes = <<>>
    /\ pc = "idle"
    /\ payload \in { BytesOfLen(n) : n \in 0..MaxBytes }
    /\ chunk_size \in ChunkSizes
    /\ gen = "new"
    /\ fcall = <<>>

\* build_handshake_frame(...) or build_chunk_frame(...)
ApiInitFrame ==
    /\ scenes = <<>>
    /\ pc = "idle"
    /\ payload = <<>>
    /\ chunk_size = 0
    /\ gen = "idle"
    /\ fcall \in HandshakeCalls \cup ChunkFrameCalls

ApiInit == ApiBuildIdle /\ (ApiInitBuild \/ ApiInitChunk \/ ApiInitFrame)

NextApi ==
    \/ Next
    \/ ChunkReject
    \/ ChunkYield
    \/ ChunkStop
    \/ CallHandshake
    \/ CallChunkFrame

SpecApi == ApiInit /\ [][NextApi]_vars

\* ------------------------------------------- cli.main, lines 119 and 135-140
\* enumerate(..., start=0)
ChunkNumberFromZero(n_yielded) == n_yielded - 1

\* enumerate(..., start=1): the number given to the slice yielded n_yielded-th
ChunkNumber(n_yielded) == n_yielded

\* hs = build_handshake_frame(len(payload)), then chunk_payload(...) is called
CliHandshake ==
    /\ cli = "build"
    /\ pc = "done"
    /\ frames' = << build_handshake_frame(Len(payload), DefaultTag, 0).frame >>
    /\ gen' = "new"
    /\ offset' = 0
    /\ chunks' = <<>>
    /\ cli' = "frames"
    /\ UNCHANGED << buildVars, opts, encVars, data, default_channels, chan_ids,
                    chunk_size, fcall, fret >>

\* one iteration of the for loop: the generator yields, the frame is built
CliChunkFrame ==
    /\ cli = "frames"
    /\ GenYield
    /\ frames' = Append(frames,
                        build_chunk_frame(ChunkNumber(Len(chunks')), chunks'[Len(chunks')],
                                          DefaultTag, 0).frame)
    /\ UNCHANGED << buildVars, opts, encVars, data, default_channels, chan_ids,
                    cli, fcall, fret >>

\* the generator is exhausted: the loop ends
CliFramesDone ==
    /\ cli = "frames"
    /\ GenStop
    /\ cli' = "done"
    /\ UNCHANGED << buildVars, opts, encVars, data, default_channels, chan_ids,
                    frames, fcall, fret >>

\* a second scene: other duration and channels, no patterns
ApiSceneBare ==
    [time_ms |-> 2579, play_mode |-> 257, patterns |-> <<>>, channel_values |-> <<0, 255, 7, 9>>]

TransferScenes == { <<ApiScene>>, <<ApiSceneBare, ApiScene>> }

\* one byte a frame, several bytes a frame, the whole payload in one frame
TransferChunkSizes == { 1, 20, 500 }

\* main has checked chunk_size > 0 (line 71) and that there are scenes (line 92)
TransferInit ==
    /\ scenes \in TransferScenes
    /\ opts \in OptSet
    /\ pc = "start"
    /\ payload = <<>>
    /\ unique_pattern_hex = <<>>
    /\ scene_rows = <<>>
    /\ channel_count = 0
    /\ i = 0
    /\ rec_at = <<>>
    /\ sel_at = <<>>
    /\ EncIdle
    /\ data = <<>>
    /\ default_channels = <<>>
    /\ chan_ids = <<>>
    /\ chunk_size \in TransferChunkSizes
    /\ cli = "build"
    /\ gen = "idle"
    /\ offset = 0
    /\ chunks = <<>>
    /\ frames = <<>>
    /\ fcall = <<>>
    /\ fret = <<>>

NextTransfer ==
    \/ BeginPayload
    \/ DedupScene
    \/ WriteCounts
    \/ WriteOffsetTable
    \/ WriteSceneRecord
    \/ WriteBlobs
    \/ WriteTrailer
    \/ Return
    \/ CliHandshake
    \/ CliChunkFrame
    \/ CliFramesDone

SpecTransfer == TransferInit /\ [][NextTransfer]_vars

\* -------------------------------------------------------- scene ingestion
\* A JSON object is the record of its members; a JSON list is a sequence.
\* A point source of the simple shape is [items |-> list] for a JSON list,
\* [scalar |-> v] for a number, string or null, and the record of its members
\* for a JSON object.  int(), float(), str() and bool() are applied to values
\* that already have the target type, which they leave as they are.

\* d.get(key, default)
Get(d, key, default) == IF key \in DOMAIN d THEN d[key] ELSE default

\* int(c.get("value", 0) or 0)
ChannelValue(c) == Get(c, "value", 0)

\* lines 316-317: a short list is extended by the defaults beyond its length
Pad(chan, defaults) ==
    IF Len(chan) < Len(defaults)
    THEN chan \o SubSeq(defaults, Len(chan) + 1, Len(defaults))
    ELSE chan

\* lines 283-286
SeqChannels(scene_entry, defaults) ==
    LET raw_ch == Get(scene_entry, "channelList", <<>>)
    IN  IF raw_ch # <<>> THEN [k \in 1..Len(raw_ch) |-> ChannelValue(raw_ch[k])] ELSE defaults

\* lines 312-317
SimpleChannels(scene_entry, defaults) ==
    LET raw_channels == Get(scene_entry, "channels", <<>>)
    IN  IF raw_channels # <<>> THEN Pad(raw_channels, defaults) ELSE defaults

\* List objects are told apart by numbers: 0 is the list default_channels,
\* the call for the n-th entry creates the lists 2n - 1 and 2n.
\* variant: chan = default_channels, the same list object
ListAlias(object, fresh) == object

\* list(default_channels): a new list object with the same items
ListCopy(object, fresh) == fresh

\* lines 283-286 and 307: the list object that becomes channel_values
SeqChannelsObject(scene_entry, n) ==
    IF Get(scene_entry, "channelList", <<>>) # <<>> THEN 2 * n ELSE ListCopy(0, 2 * n - 1)

\* lines 312-317 and 341: the list object that becomes channel_values;
\* extend() changes the list of line 315, no other
SimpleChannelsObject(scene_entry, n) ==
    IF Get(scene_entry, "channels", <<>>) # <<>> THEN 2 * n ELSE ListCopy(0, 2 * n - 1)

\* lines 293-298; idx is the 0-based index of p in the source list
SeqPoint(p, idx) ==
    Pt(Get(p, "x", 0), Get(p, "y", 0), Get(p, "color", White), Get(p, "start", idx = 0))

\* lines 290-301: one Pattern, its points list possibly empty
SeqPattern(pat) ==
    LET src == Get(pat, "points", <<>>)
    IN  [points |-> [k \in 1..Len(src) |-> SeqPoint(src[k], k - 1)],
         close |-> Get(pat, "close", TRUE)]

\* "if points:" keeps the patterns that have points
WithPoints(pats) == SelectSeq(pats, LAMBDA q : q.points # <<>>)

scene_from_seq_entry(scene_entry, defaults) ==
    LET src == Get(scene_entry, "patternList", <<>>)
    IN  [time_ms |-> Get(scene_entry, "time", Get(scene_entry, "time_ms", 5000)),
         play_mode |-> Get(scene_entry, "playModeValue", Get(scene_entry, "play_mode", 0)),
         patterns |-> WithPoints([k \in 1..Len(src) |-> SeqPattern(src[k])]),
         channel_values |-> SeqChannels(scene_entry, defaults)]

\* isinstance(pt, (list, tuple)) and len(pt) >= 2
IsPair(pt) == "items" \in DOMAIN pt /\ Len(pt.items) >= 2

\* isinstance(pt, dict)
IsDict(pt) == "items" \notin DOMAIN pt /\ "scalar" \notin DOMAIN pt

\* lines 323-333 from source index idx (0-based) on; color is the variable
\* color, which line 330 reassigns
RECURSIVE SimplePoints(_, _, _)
SimplePoints(src, idx, color) ==
    IF idx >= Len(src) THEN <<>>
    ELSE LET pt == src[idx + 1]
         IN  IF IsPair(pt)
             THEN << Pt(pt.items[1], pt.items[2], color, idx = 0) >>
                  \o SimplePoints(src, idx + 1, color)
             ELSE IF IsDict(pt)
             THEN LET c2 == Get(pt, "color", color)
                  IN  << Pt(Get(pt, "x", 0), Get(pt, "y", 0), c2, Get(pt, "start", idx = 0)) >>
                      \o SimplePoints(src, idx + 1, c2)
             ELSE SimplePoints(src, idx + 1, color)

\* lines 321-335
SimplePattern(pat) ==
    [points |-> SimplePoints(Get(pat, "points", <<>>), 0, Get(pat, "color", White)),
     close |-> Get(pat, "close", TRUE)]

scene_from_simple_entry(scene_entry, defaults) ==
    LET src == Get(scene_entry, "patterns", <<>>)
    IN  [time_ms |-> Get(scene_entry, "time_ms", Get(scene_entry, "time", 5000)),
         play_mode |-> Get(scene_entry, "play_mode", Get(scene_entry, "playModeValue", 0)),
         patterns |-> WithPoints([k \in 1..Len(src) |-> SimplePattern(src[k])]),
         channel_values |-> SimpleChannels(scene_entry, defaults)]

\* ------------------------------------------------- cli.main, lines 71 to 93
ingestRest == << opts, pc, payload, unique_pattern_hex, scene_rows, channel_count, i,
                 rec_at, sel_at, encVars, data, default_channels, genVars, frames,
                 fcall, fret >>

\* if args.chunk_size <= 0: raise SystemExit
CliRejectChunkSize ==
    /\ cli = "start"
    /\ chunk_size <= 0
    /\ cli' = "exit"
    /\ UNCHANGED << scenes, chan_ids, ingestRest >>

\* the document has a sceneList: the .seq shape
CliOpenSeq ==
    /\ cli = "start"
    /\ chunk_size > 0
    /\ "sceneList" \in DOMAIN data
    /\ cli' = "seq"
    /\ scenes' = <<>>
    /\ UNCHANGED << chan_ids, ingestRest >>

\* the document has scenes and no sceneList: the simple shape
CliOpenSimple ==
    /\ cli = "start"
    /\ chunk_size > 0
    /\ "sceneList" \notin DOMAIN data
    /\ "scenes" \in DOMAIN data
    /\ cli' = "simple"
    /\ scenes' = <<>>
    /\ UNCHANGED << chan_ids, ingestRest >>

\* neither: raise SystemExit (line 90)
CliRejectShape ==
    /\ cli = "start"
    /\ chunk_size > 0
    /\ "sceneList" \notin DOMAIN data
    /\ "scenes" \notin DOMAIN data
    /\ cli' = "exit"
    /\ UNCHANGED << scenes, chan_ids, ingestRest >>

\* one iteration of the loop of lines 80-81
CliIngestSeq ==
    /\ cli = "seq"
    /\ Len(scenes) < Len(data.sceneList)
    /\ scenes' = Append(scenes,
                        scene_from_seq_entry(data.sceneList[Len(scenes) + 1], default_channels))
    /\ chan_ids' = Append(chan_ids,
                          SeqChannelsObject(data.sceneList[Len(scenes) + 1], Len(scenes) + 1))
    /\ UNCHANGED << cli, ingestRest >>

\* one iteration of the loop of lines 85-86
CliIngestSimple ==
    /\ cli = "simple"
    /\ Len(scenes) < Len(data.scenes)
    /\ scenes' = Append(scenes,
                        scene_from_simple_entry(data.scenes[Len(scenes) + 1], default_channels))
    /\ chan_ids' = Append(chan_ids,
                          SimpleChannelsObject(data.scenes[Len(scenes) + 1], Len(scenes) + 1))
    /\ UNCHANGED << cli, ingestRest >>

\* the entries of the document, whatever its shape
Entries == IF "sceneList" \in DOMAIN data THEN data.sceneList ELSE data.scenes

\* if not scenes: raise SystemExit (line 92)
CliRejectNoScenes ==
    /\ cli \in {"seq", "simple"}
    /\ Len(scenes) = Len(Entries)
    /\ scenes = <<>>
    /\ cli' = "exit"
    /\ UNCHANGED << scenes, chan_ids, ingestRest >>

\* the loop is over and there are scenes
CliIngested ==
    /\ cli \in {"seq", "simple"}
    /\ Len(scenes) = Len(Entries)
    /\ scenes # <<>>
    /\ cli' = "ingested"
    /\ UNCHANGED << scenes, chan_ids, ingestRest >>

\* ----------------------------------------------------- documents to ingest
MaxEntries == 2

\* the channel defaults of a device with four channels
DeviceDefaults == <<10, 20, 30, 40>>

\* .seq entries: two channels, two points of which one has no x; no channel
\* list, a pattern without points; an empty channel list; four channels, one
\* of them without a value
SeqEntries ==
    { [channelList |-> << [value |-> 7], [value |-> 0] >>,
       patternList |-> << [points |-> << [x |-> 1, y |-> 2], [y |-> 3] >>, close |-> FALSE] >>,
       time |-> 100, playModeValue |-> 1],
      [patternList |-> << [points |-> <<>>] >>, time_ms |-> 30],
      [channelList |-> <<>>, play_mode |-> 2],
      [channelList |-> << [value |-> 1], [id |-> 2], [value |-> 3], [value |-> 4] >>,
       patternList |-> << [points |-> << [x |-> 4, y |-> 4, color |-> Red, start |-> FALSE],
                                         [x |-> 8, y |-> 8] >>] >>] }

\* simple entries: two channels, pairs behind a one-element list and before a
\* number; keyed records, one without y and one with a colour, then a pair;
\* five channels; no channels and a pattern whose only point source is a number
SimpleEntries ==
    { [channels |-> <<1, 2>>,
       patterns |-> << [points |-> << [items |-> <<5>>], [items |-> <<1, 2>>],
                                      [items |-> <<3, 4>>], [scalar |-> 0] >>,
                        color |-> Red] >>],
      [patterns |-> << [points |-> << [x |-> 1], [x |-> 1, y |-> 1, color |-> Red],
                                      [items |-> <<0, 0>>] >>,
                        close |-> FALSE] >>,
       time |-> 7],
      [channels |-> <<1, 2, 3, 4, 5>>, play_mode |-> 3],
      [channels |-> <<>>, patterns |-> << [points |-> << [scalar |-> 0] >>] >>] }

Documents ==
    { [sceneList |-> es] : es \in SeqsUpTo(SeqEntries, MaxEntries) }
    \cup { [scenes |-> es] : es \in SeqsUpTo(SimpleEntries, MaxEntries) }
    \cup { [frames |-> <<>>] }

IngestInit ==
    /\ data \in Documents
    /\ default_channels = DeviceDefaults
    /\ chan_ids = <<>>
    /\ chunk_size \in {0, 500}
    /\ cli = "start"
    /\ scenes = <<>>
    /\ opts \in { o \in OptSet : o.tf1_name = <<65, 49>> /\ Len(o.device_type) = 2 }
    /\ pc = "idle"
    /\ payload = <<>>
    /\ unique_pattern_hex = <<>>
    /\ scene_rows = <<>>
    /\ channel_count = 0
    /\ i = 0
    /\ rec_at = <<>>
    /\ sel_at = <<>>
    /\ EncIdle
    /\ gen = "idle"
    /\ offset = 0
    /\ chunks = <<>>
    /\ frames = <<>>
    /\ fcall = <<>>
    /\ fret = <<>>

NextIngest ==
    \/ CliRejectChunkSize
    \/ CliOpenSeq
    \/ CliOpenSimple
    \/ CliRejectShape
    \/ CliIngestSeq
    \/ CliIngestSimple
    \/ CliRejectNoScenes
    \/ CliIngested

SpecIngest == IngestInit /\ [][NextIngest]_vars


\* ------------------------------------------------------- cli.main as a whole
\* lines 95-119: no simplification, the options are those of the run, and
\* build_tf1_payload is called with the scenes ingested
CliBuild ==
    /\ cli = "ingested"
    /\ cli' = "build"
    /\ pc' = "start"
    /\ UNCHANGED << scenes, opts, payload, unique_pattern_hex, scene_rows, channel_count, i,
                    rec_at, sel_at, encVars, data, default_channels, chan_ids, genVars,
                    frames, fcall, fret >>

NextMain ==
    \/ NextIngest
    \/ CliBuild
    \/ NextTransfer

SpecMain == IngestInit /\ [][NextMain]_vars

\* ------------------------------------------- encode_patterns, other canvases
\* a large square canvas and a canvas taller than wide
CanvasSizes == { <<1000, 1000>>, <<4, 12>> }

\* positions on the canvas: the centre, positions on the axes through it,
\* corners, and a position just below the axis to the east
CanvasCoords(size) ==
    IF size = <<1000, 1000>>
    THEN { <<500, 500>>, <<1000, 500>>, <<500, 0>>, <<0, 500>>, <<500, 1000>>, <<1000, 501>> }
    ELSE { <<2, 6>>, <<4, 6>>, <<0, 0>>, <<4, 12>> }

CanvasPoints(size) == { Pt(c[1], c[2], White, s) : c \in CanvasCoords(size), s \in BOOLEAN }

CanvasOpts(size) ==
    [tf1_name |-> <<65, 49>>, weight |-> 258, device_type |-> <<68, 81>>,
     canvas_width |-> size[1], canvas_height |-> size[2]]

\* one pattern of up to MaxPts points on one of the canvases
CanvasInit ==
    /\ \E size \in CanvasSizes :
          /\ opts = CanvasOpts(size)
          /\ patterns \in { << [points |-> ps, close |-> c] >> :
                              ps \in SeqsUpTo(CanvasPoints(size), MaxPts), c \in BOOLEAN }
    /\ epc = "loop"
    /\ pj = 0
    /\ pk = 0
    /\ out = <<>>
    /\ BuildIdle
    /\ IoIdle

SpecCanvas == CanvasInit /\ [][NextEncode]_vars

\* ------------------------------------ a build, channel vectors of any length
\* scenes whose channel vectors have any length from 0 to MaxChannels
MixedScenes == UNION { SceneSet(n) : n \in 0..MaxChannels }

\* scene lists whose scenes need not agree on the length of channel_values
MixedInit ==
    /\ scenes \in SeqsUpTo(MixedScenes, MaxScenes)
    /\ opts \in { o \in OptSet : o.tf1_name = <<65, 49>> }
    /\ pc = "start"
    /\ payload = <<>>
    /\ unique_pattern_hex = <<>>
    /\ scene_rows = <<>>
    /\ channel_count = 0
    /\ i = 0
    /\ rec_at = <<>>
    /\ sel_at = <<>>
    /\ EncIdle
    /\ IoIdle

SpecMixed == MixedInit /\ [][Next]_vars

\* ================================================================ properties
\* little-endian integer of size bytes at 0-based offset off of s
RECURSIVE ReadLE(_, _, _)
ReadLE(s, off, size) ==
    IF size = 0 THEN 0 ELSE s[off + 1] + 256 * ReadLE(s, off + 1, size - 1)

\* the bytes of s at 0-based offsets from .. to-1; <<-1>> if that is no range of s
Slice(s, from, to) ==
    IF 0 <= from /\ from <= to /\ to <= Len(s) THEN SubSeq(s, from + 1, to) ELSE <<-1>>

\* entry k (0-based) of the pattern offset table of the payload
TableEntry(k) == ReadLE(payload, HeaderLen + 4 * k, 4)

EncHex(scene) == encode_patterns(scene.patterns, opts.canvas_width, opts.canvas_height)

EncOf(scene) == _hex_to_bytes(EncHex(scene))

NoDup(s) == \A a, b \in 1..Len(s) : s[a] = s[b] => a = b

\* the index the payload carries for scene r: the selector byte of its record
\* when there is one, else the index build_tf1_payload computed for it
StoredIndex(r) ==
    IF channel_count > 3 THEN payload[rec_at[r] + 7]
    ELSE ListIndex(unique_pattern_hex, scene_rows[r].pattern_hex)

\* C1: for every non-empty scene list, the pattern index of each scene,
\* looked up in the pattern offset table (entry i = start, entry i+1 = end),
\* delimits a byte range of the payload equal to the encoder output of that
\* same scene.
C1_IndexResolves ==
    pc = "done" =>
        \A r \in 1..Len(scenes) :
            LET idx == StoredIndex(r)
            IN  /\ idx \in 0..(ReadLE(payload, 30, 2) - 1)
                /\ Slice(payload, TableEntry(idx), TableEntry(idx + 1)) = EncOf(scenes[r])

\* C2 as stated: whenever channelCount > 3, the byte overwritten with the
\* scene's unique-blob index is the final channel byte of that scene's record
\* (record offset channelCount + 2).
C2_FinalChannelByte ==
    \A r \in 1..Len(sel_at) :
        channel_count > 3 => sel_at[r] - rec_at[r] = channel_count + 2

\* C2 amended: whenever channelCount > 3, the byte overwritten with the
\* scene's unique-blob index is the fourth channel byte of that scene's record
\* (record offset 6); it is the final channel byte only when channelCount = 4.
C2_FourthChannelByte ==
    \A r \in 1..Len(sel_at) :
        channel_count > 3 =>
            /\ sel_at[r] - rec_at[r] = 6
            /\ (sel_at[r] - rec_at[r] = channel_count + 2) <=> (channel_count = 4)
            /\ pc = "done" =>
                   payload[sel_at[r] + 1]
                       = ListIndex(unique_pattern_hex, scene_rows[r].pattern_hex) % 256

C2_Witness ==
    /\ pc = "done"
    /\ channel_count = 5
    /\ Len(scenes) = 2
    /\ sel_at[2] = rec_at[2] + 6
    /\ payload[sel_at[2] + 1] = 1
    /\ payload[rec_at[2] + 8] # 1

\* C3: for every payload returned, scene_block_end (the first offset-table
\* entry) + the sum of the unique blobs' byte lengths + the trailer length
\* (1 + 8 + length of the display name) equals the length of the payload.
C3_LengthRoundTrip ==
    pc = "done" =>
        TableEntry(0) + Len(BlobBytes(unique_pattern_hex))
            + (1 + 8 + Len(DisplayName(opts.tf1_name)))
        = Len(payload)

C3_Witness ==
    /\ pc = "done"
    /\ Len(unique_pattern_hex) = 2
    /\ Len(BlobBytes(unique_pattern_hex)) = 40
    /\ _contains_cjk(opts.tf1_name)
    /\ Len(payload) = TableEntry(0) + 40 + 14

\* the payload offset at which the last scene record ends
RecordsEnd == rec_at[Len(rec_at)] + 3 + Len(scenes[Len(rec_at)].channel_values)

\* C4 as stated: successive pattern-offset-table entries are strictly
\* increasing, entry k+1 minus entry k equals the byte length of unique blob k,
\* and the first entry equals the scene-block-end offset.
C4_StrictlyIncreasing ==
    pc = "done" =>
        /\ TableEntry(0) = RecordsEnd
        /\ \A k \in 1..Len(unique_pattern_hex) :
               /\ TableEntry(k) > TableEntry(k - 1)
               /\ TableEntry(k) - TableEntry(k - 1) = Len(_hex_to_bytes(unique_pattern_hex[k]))

\* C4 amended: successive pattern-offset-table entries never decrease, entry
\* k+1 minus entry k equals the byte length of unique blob k (so the step is
\* strict exactly when that blob is not empty), and the first entry equals the
\* scene-block-end offset.
C4_OffsetTableSteps ==
    pc = "done" =>
        /\ TableEntry(0) = RecordsEnd
        /\ \A k \in 1..Len(unique_pattern_hex) :
               /\ TableEntry(k) >= TableEntry(k - 1)
               /\ TableEntry(k) - TableEntry(k - 1) = Len(_hex_to_bytes(unique_pattern_hex[k]))
               /\ (TableEntry(k) > TableEntry(k - 1)) <=> (unique_pattern_hex[k] # <<>>)

C4_Witness ==
    /\ pc = "done"
    /\ Len(unique_pattern_hex) = 2
    /\ unique_pattern_hex[1] = <<>>
    /\ TableEntry(1) = TableEntry(0)
    /\ TableEntry(2) = TableEntry(1) + 16

\* C5: the header occupies exactly payload bytes 0..47, the pattern offset
\* table the next 4 * (uniqueBlobCount + 1) bytes, the first scene record
\* begins at the offset stored little-endian in header bytes 20..23, which is
\* 48 + 4 * uniqueBlobCount + 4, and scene record i starts at that offset
\* + i * (channelCount + 3), channelCount + 3 being header byte 26.
C5_Layout ==
    /\ pc = "table" => Len(payload) = 48
    /\ (pc = "records" /\ i = 0) =>
           Len(payload) = 48 + 4 * (ReadLE(payload, 30, 2) + 1)
    /\ pc \in {"records", "trailer", "convert", "done"} =>
           /\ ReadLE(payload, 30, 2) = Len(unique_pattern_hex)
           /\ ReadLE(payload, 20, 4) = 48 + 4 * Len(unique_pattern_hex) + 4
           /\ payload[27] = channel_count + 3
           /\ \A r \in 1..Len(rec_at) :
                  rec_at[r] = ReadLE(payload, 20, 4) + (r - 1) * payload[27]

C5_Witness ==
    /\ pc = "done"
    /\ Len(unique_pattern_hex) = 2
    /\ channel_count = 5
    /\ ReadLE(payload, 20, 4) = 60
    /\ rec_at = <<60, 68>>

\* the scene index (1-based) at which hex string h is first produced
FirstSeen(h) ==
    CHOOSE r \in 1..Len(scenes) :
        /\ EncHex(scenes[r]) = h
        /\ \A q \in 1..(r - 1) : EncHex(scenes[q]) # h

\* C6: after processing any prefix of the scene list, the unique-blob list
\* contains no two equal blobs, contains exactly the distinct encoder outputs
\* of the scenes seen so far, is ordered by first occurrence in scene order,
\* and its length is at least 1 and at most the number of scenes processed.
C6_UniqueList ==
    (pc = "dedup" /\ i >= 1) =>
        /\ NoDup(unique_pattern_hex)
        /\ {unique_pattern_hex[k] : k \in 1..Len(unique_pattern_hex)}
               = {EncHex(scenes[r]) : r \in 1..i}
        /\ \A a, b \in 1..Len(unique_pattern_hex) :
               a < b => FirstSeen(unique_pattern_hex[a]) < FirstSeen(unique_pattern_hex[b])
        /\ 1 <= Len(unique_pattern_hex)
        /\ Len(unique_pattern_hex) <= i

C6_Witness ==
    /\ pc = "dedup"
    /\ i = 2
    /\ scenes[1] # scenes[2]
    /\ EncHex(scenes[1]) = EncHex(scenes[2])
    /\ Len(unique_pattern_hex) = 1

\* two scenes with identical encoded patterns and different time or channels
SameGeometry(a, b) ==
    /\ EncHex(scenes[a]) = EncHex(scenes[b])
    /\ \/ scenes[a].time_ms # scenes[b].time_ms
       \/ scenes[a].channel_values # scenes[b].channel_values

\* C7: two scenes of one build whose patterns encode to identical bytes but
\* whose time_ms or channel_values differ get the same unique-blob index, the
\* blob is stored once in the payload, and the payload still holds one scene
\* record per input scene, in input order (scene-count field = number of
\* input scenes).
C7_SharedBlob ==
    pc = "done" =>
        /\ \A a, b \in 1..Len(scenes) :
               SameGeometry(a, b) =>
                   /\ StoredIndex(a) = StoredIndex(b)
                   /\ ListIndex(unique_pattern_hex, scene_rows[a].pattern_hex)
                          = ListIndex(unique_pattern_hex, scene_rows[b].pattern_hex)
                   /\ Cardinality({k \in 0..(ReadLE(payload, 30, 2) - 1) :
                                      Slice(payload, TableEntry(k), TableEntry(k + 1))
                                          = EncOf(scenes[a])}) = 1
        /\ ReadLE(payload, 28, 2) = Len(scenes)
        /\ Len(rec_at) = Len(scenes)
        /\ \A r \in 1..Len(scenes) :
               /\ ReadLE(payload, rec_at[r], 2) = (scenes[r].time_ms \div 10) % 65536
               /\ r > 1 => rec_at[r] > rec_at[r - 1]

C7_Witness ==
    /\ pc = "done"
    /\ Len(scenes) = 2
    /\ EncHex(scenes[1]) = EncHex(scenes[2])
    /\ EncHex(scenes[1]) # <<>>
    /\ scenes[1].time_ms # scenes[2].time_ms
    /\ scenes[1].channel_values # scenes[2].channel_values
    /\ Len(unique_pattern_hex) = 1
    /\ ReadLE(payload, rec_at[1], 2) # ReadLE(payload, rec_at[2], 2)

\* C8: in every payload the play-mode byte of the last scene record is 0
\* whatever that scene's play_mode, and the play-mode byte of every other
\* scene record is that scene's play_mode modulo 256.
C8_PlayMode ==
    pc = "done" =>
        \A r \in 1..Len(scenes) :
            payload[rec_at[r] + 3]
                = IF r = Len(scenes) THEN 0 ELSE scenes[r].play_mode % 256

C8_Witness ==
    /\ pc = "done"
    /\ Len(scenes) = 2
    /\ scenes[1].play_mode = 257
    /\ scenes[2].play_mode = 257
    /\ payload[rec_at[1] + 3] = 1
    /\ payload[rec_at[2] + 3] = 0

NumStarts(pts) == Cardinality({k \in 1..Len(pts) : pts[k].start})

\* the patterns C9 speaks of: close unset, or close set and the first point a start
Covered(p) == (~p.close) \/ (p.points # <<>> /\ p.points[1].start)

ExpectedVertices(p) == Len(p.points) + (IF p.close THEN NumStarts(p.points) ELSE 0)

SumExpected(ps) == RangeSum([j \in 1..Len(ps) |-> ExpectedVertices(ps[j])], 1, Len(ps))

C9_VertexCount ==
    (epc = "done" /\ \A j \in 1..Len(patterns) : Covered(patterns[j])) =>
        Len(_hex_to_bytes(out)) = 4 * SumExpected(patterns)

\* C9: for a pattern with close set whose first point is a start point,
\* encode_patterns emits one 4-byte vertex per point plus exactly one closing
\* vertex per sub-path (a closed 3-point triangle: 4 vertices = 16 bytes); for
\* a pattern with close unset, exactly one vertex per point; the point
\* sequence itself is not extended.
C9_ClosingVertices == []C9_VertexCount /\ [][patterns' = patterns]_vars

C9_Witness ==
    /\ epc = "done"
    /\ Len(patterns) = 1
    /\ patterns[1].close
    /\ Len(patterns[1].points) = 3
    /\ patterns[1].points[1].start
    /\ NumStarts(patterns[1].points) = 1
    /\ Len(_hex_to_bytes(out)) = 16

\* every sub-path has at most two points: no three consecutive points of which
\* the second and the third continue a sub-path
ShortSubpaths(pts) ==
    \A k \in 1..(Len(pts) - 2) : pts[k + 1].start \/ pts[k + 2].start

\* C10: the close flag only has effect on sub-paths with at least 3 points:
\* for sub-paths of 1 or 2 points encode_patterns produces the same bytes
\* whether the pattern's close flag is set or not.
C10_CloseIgnoredOnShortSubpaths ==
    (epc = "done" /\ Len(patterns) = 1 /\ ShortSubpaths(patterns[1].points)) =>
        out = encode_patterns(<< [points |-> patterns[1].points,
                                  close |-> ~patterns[1].close] >>,
                              opts.canvas_width, opts.canvas_height)

\* ---------------------------------------------------------------- C11
\* C11: for every payload and every chunk size n >= 1 (also n larger than
\* the payload), chunk_payload yields slices in order, each of at most n
\* bytes, whose concatenation is the payload: what has been yielded so far
\* is always a prefix of the payload, and the whole payload once the
\* generator is exhausted.
C11_ChunksCoverPayload ==
    (gen \in {"new", "run", "done"} /\ chunk_size >= 1) =>
        /\ \A k \in 1..Len(chunks) : Len(chunks[k]) <= chunk_size
        /\ Len(Concat(chunks)) <= Len(payload)
        /\ Concat(chunks) = SubSeq(payload, 1, Len(Concat(chunks)))
        /\ gen = "done" => Concat(chunks) = payload

\* a finished run of several slices, the last one shorter than n
C11_Witness ==
    /\ gen = "done"
    /\ cli = "idle"
    /\ Len(chunks) >= 2
    /\ Len(chunks[Len(chunks)]) < chunk_size

\* ---------------------------------------------------------------- C12
\* C12: for every sequence number, every chunk (the empty one included) and
\* every tag (of any length), build_chunk_frame returns a frame of exactly
\* 12 + len(chunk) bytes with 0xAA at byte 0, 18 at byte 1, 0x5A at byte 3,
\* the low 16 bits of the frame length in bytes 4-5, the low 16 bits of the
\* sequence in bytes 6-7 and the chunk as bytes 12 onward.
C12_ChunkFrameShape ==
    (fret # <<>> /\ fcall.fn = "build_chunk_frame") =>
        LET frame == fret[1].frame
            n == 12 + Len(fcall.chunk)
        IN  /\ fret[1].raised = ""
            /\ Len(frame) = n
            /\ frame[1] = 170
            /\ frame[2] = 18
            /\ frame[4] = 90
            /\ ReadLE(frame, 4, 2) = n % 65536
            /\ ReadLE(frame, 6, 2) = fcall.sequence % 65536
            /\ SubSeq(frame, 13, n) = fcall.chunk

\* ---------------------------------------------------------------- C13
\* C13: for every total length in 0 .. 2^32 - 1, every file type and every
\* tag, build_handshake_frame returns exactly 16 bytes: 0xAA, 17, 0, 0x5A,
\* then {16, 0, 0, 0}, the first up to 3 tag bytes from byte 8 on, the file
\* type mod 256 at byte 11 and the total length little-endian in bytes 12-15.
C13_HandshakeShape ==
    (fret # <<>> /\ fcall.fn = "build_handshake_frame" /\ fcall.total_length >= 0) =>
        LET frame == fret[1].frame
        IN  /\ fret[1].raised = ""
            /\ Len(frame) = 16
            /\ SubSeq(frame, 1, 8) = <<170, 17, 0, 90, 16, 0, 0, 0>>
            /\ \A k \in 1..Min2(3, Len(fcall.tag)) : frame[8 + k] = fcall.tag[k]
            /\ frame[12] = fcall.file_type % 256
            /\ ReadLE(frame, 12, 4) = fcall.total_length

\* a handshake for a tag shorter than the tag field, a file type above 255
\* and a length that needs all four bytes
C13_Witness ==
    /\ fret # <<>>
    /\ fcall.fn = "build_handshake_frame"
    /\ Len(fcall.tag) < 3
    /\ fcall.file_type > 255
    /\ fcall.total_length > 16777215

\* ---------------------------------------------------------------- C15
\* C15: configuration errors are fatal with no partial output:
\* build_tf1_payload on an empty scene list ends in an error and no payload
\* byte exists, chunk_payload with a chunk size <= 0 ends in an error and
\* has yielded no slice.
C15_NoPartialOutput ==
    /\ (scenes = <<>> /\ pc \notin {"start", "idle"}) => (pc = "error" /\ payload = <<>>)
    /\ (chunk_size <= 0 /\ gen \notin {"new", "idle"}) => (gen = "error" /\ chunks = <<>>)

\* chunk_payload has raised for a negative chunk size
C15_Witness ==
    /\ gen = "error"
    /\ chunk_size < 0
    /\ payload # <<>>

\* ---------------------------------------------------------------- C14
\* the bytes 12.. of the chunk frames built so far, in order
FrameBodies == [k \in 1..(Len(frames) - 1) |-> SubSeq(frames[k + 1], 13, Len(frames[k + 1]))]

\* C14: the frames of a payload are one handshake frame first, declaring the
\* payload length, then one chunk frame per slice of chunk_payload in slice
\* order, the k-th one carrying k in bytes 6-7; the bytes 12.. of the chunk
\* frames concatenate to the payload, and no chunk frame comes before the
\* handshake.
C14_FrameSequence ==
    /\ cli = "build" => frames = <<>>
    /\ cli \in {"frames", "done"} =>
        /\ Len(frames) = 1 + Len(chunks)
        /\ Len(frames[1]) = 16
        /\ frames[1][2] = 17
        /\ ReadLE(frames[1], 12, 4) = Len(payload)
        /\ \A k \in 1..Len(chunks) :
            /\ frames[k + 1][2] = 18
            /\ ReadLE(frames[k + 1], 6, 2) = k
            /\ FrameBodies[k] = chunks[k]
        /\ Concat(FrameBodies) = SubSeq(payload, 1, Len(Concat(FrameBodies)))
    /\ cli = "done" =>
        /\ gen = "done"
        /\ Concat(FrameBodies) = payload

\* a finished transfer of several chunk frames, the last one not full
C14_Witness ==
    /\ cli = "done"
    /\ Len(frames) >= 4
    /\ Len(frames[Len(frames)]) < 12 + chunk_size

\* ---------------------------------------------------------------- C16
\* C16: for any document ingested with one default channel vector (all
\* scenes through scene_from_seq_entry or all through
\* scene_from_simple_entry), every resulting scene has the same number of
\* channel values.
C16_ConstantChannelCount ==
    cli \in {"seq", "simple", "ingested"} =>
        \A a, b \in 1..Len(scenes) :
            Len(scenes[a].channel_values) = Len(scenes[b].channel_values)

\* ---------------------------------------------------------------- C17
\* the channel values an entry supplies itself, in either shape
OwnChannels(e) ==
    IF "channelList" \in DOMAIN e
    THEN [k \in 1..Len(e.channelList) |-> Get(e.channelList[k], "value", 0)]
    ELSE IF "channels" \in DOMAIN e THEN e.channels ELSE <<>>

\* C17: in both ingestion shapes, a scene that supplies a non-empty channel
\* list shorter than the defaults gets its own values followed by the
\* remaining defaults, and a scene that supplies none or an empty list gets
\* the default vector verbatim.
C17_PaddedChannels ==
    cli \in {"seq", "simple", "ingested"} =>
        \A k \in 1..Len(scenes) :
            LET own == OwnChannels(Entries[k])
                n == Len(default_channels)
            IN  /\ own = <<>> => scenes[k].channel_values = default_channels
                /\ (own # <<>> /\ Len(own) < n) =>
                       scenes[k].channel_values = own \o SubSeq(default_channels, Len(own) + 1, n)

\* ---------------------------------------------------------------- C18
\* a point source with a valid x/y pair: a list of two or more elements, or
\* a keyed record with both x and y
HasXY(p) ==
    \/ "items" \in DOMAIN p /\ Len(p.items) >= 2
    \/ "x" \in DOMAIN p /\ "y" \in DOMAIN p

\* the source patterns of an entry, in either shape
SourcePatterns(e) ==
    IF "patternList" \in DOMAIN e THEN e.patternList
    ELSE IF "patterns" \in DOMAIN e THEN e.patterns ELSE <<>>

\* per source pattern, the number of its point sources with a valid pair
ValidCounts(e) ==
    [j \in 1..Len(SourcePatterns(e)) |->
        LET src == Get(SourcePatterns(e)[j], "points", <<>>)
        IN  Cardinality({ m \in 1..Len(src) : HasXY(src[m]) })]

\* C18: a point source without a valid x/y pair (a keyed record without x
\* or without y, a list of fewer than two elements, any other value)
\* contributes no Point, and a pattern left without points is dropped: the
\* scene has one pattern per source pattern with valid point sources, with
\* as many points as that pattern has valid sources.
C18_InvalidPointsSkipped ==
    cli \in {"seq", "simple", "ingested"} =>
        \A k \in 1..Len(scenes) :
            LET kept == SelectSeq(ValidCounts(Entries[k]), LAMBDA c : c > 0)
            IN  /\ Len(scenes[k].patterns) = Len(kept)
                /\ \A j \in 1..Min2(Len(kept), Len(scenes[k].patterns)) :
                       Len(scenes[k].patterns[j].points) = kept[j]

\* ---------------------------------------------------------------- C19
\* every point source of every pattern of the entry is a list or a skipped
\* value, none is a keyed record
OnlyPairSources(e) ==
    \A j \in 1..Len(SourcePatterns(e)) :
        LET src == Get(SourcePatterns(e)[j], "points", <<>>)
        IN  \A m \in 1..Len(src) : "items" \in DOMAIN src[m] \/ "scalar" \in DOMAIN src[m]

\* C19: every pattern that scene_from_simple_entry makes from ordered-pair
\* point sources has its first point marked start and no later point,
\* whatever skipped entries the source list contains.
C19_FirstPointStarts ==
    cli \in {"simple", "ingested"} =>
        \A k \in 1..Len(scenes) :
            ("scenes" \in DOMAIN data /\ OnlyPairSources(Entries[k])) =>
                \A j \in 1..Len(scenes[k].patterns) :
                    LET pts == scenes[k].patterns[j].points
                    IN  /\ pts[1].start
                        /\ \A m \in 2..Len(pts) : ~pts[m].start

\* ---------------------------------------------------------------- C20
\* the last n elements of s; <<-1>> if s is shorter
LastBytes(s, n) == IF n <= Len(s) THEN SubSeq(s, Len(s) - n + 1, Len(s)) ELSE <<-1>>

\* the trailer the claim describes: 0, "display:", then "MyPro" for a name
\* with a character in U+4E00..U+9FFF and the name itself otherwise
ExpectedTrailer(name) ==
    <<0>> \o <<100, 105, 115, 112, 108, 97, 121, 58>>
    \o (IF \E k \in 1..Len(name) : name[k] \in 19968..40959
        THEN <<77, 121, 80, 114, 111>>
        ELSE name)

\* C20: for every tf1_name the build returns a payload, and the payload ends
\* with one zero byte, the ASCII bytes of "display:" and the display name:
\* "MyPro" if tf1_name has a character in U+4E00..U+9FFF, tf1_name itself
\* otherwise.
C20_Trailer ==
    (scenes # <<>> /\ pc \in {"done", "error"}) =>
        /\ pc = "done"
        /\ LastBytes(payload, Len(ExpectedTrailer(opts.tf1_name))) = ExpectedTrailer(opts.tf1_name)

\* ---------------------------------------------------------------- C21
\* no step changes what the core functions are given: the document and the
\* default channel vector during ingestion, the scenes (with their patterns,
\* points and channel values) and the options during the build and after it;
\* during ingestion main only appends to its scene list
C21_InputsKept ==
    /\ data' = data
    /\ default_channels' = default_channels
    /\ opts' = opts
    /\ cli \in {"seq", "simple"} =>
          (Len(scenes') >= Len(scenes) /\ SubSeq(scenes', 1, Len(scenes)) = scenes)
    /\ cli \in {"ingested", "build", "frames", "done"} => scenes' = scenes

\* the channel_values of every ingested scene is a list object of its own:
\* not the default vector (object 0), not the list of another scene
C21_OwnLists ==
    /\ Len(chan_ids) = (IF cli = "start" THEN 0 ELSE Len(scenes))
    /\ \A k \in 1..Len(chan_ids) :
          /\ chan_ids[k] # 0
          /\ \A q \in 1..Len(chan_ids) : q # k => chan_ids[q] # chan_ids[k]

\* C21: the core never mutates its inputs: when build_tf1_payload,
\* encode_patterns, scene_from_seq_entry or scene_from_simple_entry has
\* returned, the scene list, every scene's patterns, points and
\* channel_values, the BuildOptions and the default channel vector are as
\* before, and an ingested scene's channel_values is a list distinct from the
\* default vector and from every other scene's list.
C21_InputsNeverMutated == [][C21_InputsKept]_vars /\ []C21_OwnLists

\* main has ingested two scenes that both take the default channel values,
\* and has built the payload from them
C21_Witness ==
    /\ cli = "build"
    /\ pc = "done"
    /\ Len(scenes) = 2
    /\ scenes[1].channel_values = default_channels
    /\ scenes[2].channel_values = default_channels
    /\ chan_ids[1] # chan_ids[2]

\* ------------------------------------------------- vertices, step by step
\* the 16-bit word whose four hex digits begin at v[at]: low byte, high byte
HexWord(v, at) == 16 * v[at] + v[at + 1] + 256 * (16 * v[at + 2] + v[at + 3])

\* a step of the inner loop of encode_patterns, and what it appends to out
PointStep == epc = "loop" /\ pk' = pk + 1

Appended == SubSeq(out', Len(out) + 1, Len(out'))

CurPoints == patterns[pj + 1].points

CurPoint == CurPoints[pk + 1]

\* the step encodes the point itself and then a closing vertex
ClosingStep == PointStep /\ Len(Appended) = 16

\* colour bits of the vertex of the current point: none for a start vertex
\* and for a point without predecessor, else those of the previous point
VertexColour ==
    IF CurPoint.start \/ pk = 0 THEN 0 ELSE _color_bits(CurPoints[pk].color)

\* bits 13-15 of a word
HighBits(word) == (word \div 8192) * 8192

\* ---------------------------------------------------------------- C22
\* C22: for every canvas of width and height at least 2 and every vertex
\* inside it, the encoded radius is below 8192, so bits 13-15 of the first
\* word of every emitted vertex are exactly the colour bits: those of the
\* previous point (none for a start vertex) for the vertex of a point, those
\* of the current point for a closing vertex.
C22_RadiusBelow8192 ==
    [][PointStep =>
          /\ HighBits(HexWord(Appended, 1)) = VertexColour
          /\ ClosingStep => HighBits(HexWord(Appended, 9)) = _color_bits(CurPoint.color)]_vars

\* the bearing the claim gives for positions on the axes through the centre:
\* 0 east of the centre and at the centre, 256 north (y smaller than the
\* centre's), 512 west, 768 south; -1 elsewhere
AxisAngle(p) ==
    LET x2 == 2 * p.x
        y2 == 2 * p.y
        w == opts.canvas_width
        h == opts.canvas_height
    IN  IF y2 = h /\ x2 >= w THEN 0
        ELSE IF y2 = h THEN 512
        ELSE IF x2 = w THEN (IF y2 < h THEN 256 ELSE 768)
        ELSE -1

\* ---------------------------------------------------------------- C23
\* C23: for every vertex position the angle is an integer in 0..1023, never
\* 1024, so it never carries into the turn-hint bits, and positions on the
\* axes through the centre give exactly 0, 256, 512 and 768: the second word
\* of every start vertex (which has no turn hint) is such an angle.
C23_AngleBelow1024 ==
    [][(PointStep /\ CurPoint.start) =>
          LET angle == HexWord(Appended, 5)
          IN  /\ angle \in 0..1023
              /\ AxisAngle(CurPoint) # -1 => angle = AxisAngle(CurPoint)]_vars

\* bits 10-15 of a second word
HintBits(word) == word \div 1024

\* the vertex of the current point may carry a turn hint: it is no start
\* point and has a previous and a next point, the next one no start point
MayTurn ==
    /\ ~CurPoint.start
    /\ pk > 0
    /\ pk < Len(CurPoints) - 1
    /\ ~CurPoints[pk + 2].start

\* ---------------------------------------------------------------- C24
\* C24: bits 10-15 of the second word of a vertex are non-zero only if the
\* vertex is no start point and has a previous and a next point in its
\* pattern, the next one being no start point; they hold a turn hint of
\* 0..63; bits 13-15 of the first word are 0 for every start vertex and
\* otherwise the colour bits of the previous point.
C24_TurnAndColourBits ==
    [][PointStep =>
          /\ HintBits(HexWord(Appended, 5)) # 0 => MayTurn
          /\ HintBits(HexWord(Appended, 5)) \in 0..63
          /\ CurPoint.start => HighBits(HexWord(Appended, 1)) = 0
          /\ (~CurPoint.start /\ pk > 0) =>
                HighBits(HexWord(Appended, 1)) = _color_bits(CurPoints[pk].color)]_vars

\* ---------------------------------------------------------------- C25
\* C25: every closing vertex carries zero turn-hint bits: bits 10-15 of the
\* second word of a closing vertex are 0.
C25_ClosingVertexNoTurn ==
    [][ClosingStep => HintBits(HexWord(Appended, 13)) = 0]_vars

\* the closing step never adds a turn hint: the second word of a closing
\* vertex is the angle of the start point it returns to
C25_ClosingVertexIsAngle ==
    [][ClosingStep =>
          \E q \in 1..(pk + 1) :
              /\ CurPoints[q].start
              /\ HexWord(Appended, 13) =
                    _point_angle(_center_point(opts.canvas_width, opts.canvas_height),
                                 CurPoints[q])]_vars

\* the current point ends a sub-path: it is the last point of the pattern or
\* the next point is a start point
EndsSubpath == pk = Len(CurPoints) - 1 \/ CurPoints[pk + 2].start

\* 1-based indices of the start points at or before the current point
StartsSoFar == {q \in 1..(pk + 1) : CurPoints[q].start}

NearestStart == CurPoints[CHOOSE q \in StartsSoFar : \A r \in StartsSoFar : r <= q]

C27_ClosingStep ==
    PointStep =>
        /\ Len(Appended) \in {8, 16}
        /\ ClosingStep <=> (patterns[pj + 1].close /\ EndsSubpath /\ StartsSoFar # {})
        /\ ClosingStep =>
              LET center == _center_point(opts.canvas_width, opts.canvas_height)
              IN  /\ HexWord(Appended, 9) =
                        (_color_bits(CurPoint.color)
                         + Radius(NearestStart, center, opts.canvas_width)) % 65536
                  /\ HexWord(Appended, 13) % 1024 = _point_angle(center, NearestStart) % 1024

\* C27: a closing vertex is emitted at the end of a sub-path of a closed
\* pattern if and only if some point at or before the current index is a
\* start point, and it encodes (radius and angle) the nearest such start
\* point; a closed pattern without start point emits no closing vertex.
C27_ClosingVertexTarget == [][C27_ClosingStep]_vars

\* a closed pattern of three points, the first two start points at different
\* places, has been encoded: five vertices, the last one closing the second
\* sub-path
C27_Witness ==
    /\ epc = "done"
    /\ Len(patterns) = 1
    /\ patterns[1].close
    /\ Len(patterns[1].points) = 3
    /\ patterns[1].points[1].start
    /\ patterns[1].points[2].start
    /\ ~patterns[1].points[3].start
    /\ <<patterns[1].points[1].x, patterns[1].points[1].y>>
          # <<patterns[1].points[2].x, patterns[1].points[2].y>>
    /\ Len(out) = 40

\* the four hex digits of a word reduced modulo 2^16: the low byte's two
\* digits, then the high byte's
Digits16(word) ==
    LET v == word % 65536
    IN  << (v % 256) \div 16, v % 16, v \div 4096, (v \div 256) % 16 >>

\* the two words of the vertex of the current point, as computed, unreduced
VertexWords ==
    << VertexColour
          + Radius(CurPoint, _center_point(opts.canvas_width, opts.canvas_height),
                   opts.canvas_width),
       (IF MayTurn THEN _turn_bits(CurPoints[pk], CurPoint, CurPoints[pk + 2]) ELSE 0)
          + _point_angle(_center_point(opts.canvas_width, opts.canvas_height), CurPoint) >>

\* the two words of the closing vertex after the current point
ClosingWords ==
    << _color_bits(CurPoint.color)
          + Radius(NearestStart, _center_point(opts.canvas_width, opts.canvas_height),
                   opts.canvas_width),
       _point_angle(_center_point(opts.canvas_width, opts.canvas_height), NearestStart) >>

\* number of vertices encode_patterns emits for a pattern: one per point and
\* one more wherever a closed sub-path ends after a start point
EmittedVertices(p) ==
    Len(p.points)
    + Cardinality({k \in 1..Len(p.points) :
                      /\ p.close
                      /\ (k = Len(p.points) \/ p.points[k + 1].start)
                      /\ \E q \in 1..k : p.points[q].start})

C29_StepDigits ==
    PointStep =>
        /\ SubSeq(Appended, 1, 8) = Digits16(VertexWords[1]) \o Digits16(VertexWords[2])
        /\ \/ Len(Appended) = 8
           \/ /\ Len(Appended) = 16
              /\ SubSeq(Appended, 9, 16)
                    = Digits16(ClosingWords[1]) \o Digits16(ClosingWords[2])

C29_BlobLength ==
    /\ Len(out) % 8 = 0
    /\ Len(_hex_to_bytes(out)) % 4 = 0
    /\ epc = "done" =>
          Len(_hex_to_bytes(out))
             = 4 * RangeSum([j \in 1..Len(patterns) |-> EmittedVertices(patterns[j])],
                            1, Len(patterns))

\* C29: every vertex encoded by _encode_step contributes exactly 4 bytes (8
\* hex digits), each 16-bit word low byte first, also when the word's value
\* exceeds 65535 (it is reduced modulo 2^16); so the length of every blob is
\* a multiple of 4 and equals 4 times the number of emitted vertices.
C29_FourBytesPerVertex == [][C29_StepDigits]_vars /\ []C29_BlobLength

\* a vertex whose first word exceeds 65535 has been encoded: white from the
\* previous point and a radius of more than 8191
C29_Witness ==
    /\ epc = "done"
    /\ Len(patterns[1].points) = 2
    /\ ~patterns[1].close
    /\ ~patterns[1].points[2].start
    /\ LET word == _color_bits(patterns[1].points[1].color)
                   + Radius(patterns[1].points[2],
                            _center_point(opts.canvas_width, opts.canvas_height),
                            opts.canvas_width)
       IN  /\ word > 65535
           /\ Len(out) = 16
           /\ HexWord(out, 9) = word - 65536

\* ---------------------------------------------------------------- C26
\* a step of the loop that writes the scene records
RecordStep == pc = "records" /\ i' = i + 1

\* the record as appended, before the pattern selector is written into it
PlainRecord == RecordBytes(scene_rows[i + 1].scene, i, Len(scene_rows))

\* C26: writing scene record i, the pattern-selector write changes at most
\* one channel byte inside record i: every byte written before (header,
\* earlier records) keeps its value, and the duration and play-mode bytes of
\* record i are those appended, for every scene list, also one whose scenes
\* have channel vectors of different lengths.
C26_SelectorWriteLocal ==
    [][RecordStep =>
          /\ Len(payload') = Len(payload) + Len(PlainRecord)
          /\ SubSeq(payload', 1, Len(payload)) = payload
          /\ SubSeq(payload', Len(payload) + 1, Len(payload) + 3) = SubSeq(PlainRecord, 1, 3)
          /\ Cardinality({k \in 4..Len(PlainRecord) :
                            payload'[Len(payload) + k] # PlainRecord[k]}) <= 1]_vars

\* ---------------------------------------------------------------- C28
\* C28: for every non-empty scene list and every BuildOptions the build
\* returns a payload: every value it appends to the payload list is in
\* 0..255, so the conversion to bytes never fails.
C28_BuildReturns ==
    scenes # <<>> =>
        /\ pc # "error"
        /\ \A k \in 1..Len(payload) : payload[k] \in 0..255

\* ---------------------------------------------------------------- C30
\* the colours the points of a simple pattern are to get: for every point
\* source that yields a point, its own colour if it is a keyed record with a
\* colour, else the colour of the pattern (white if it has none)
OwnColours(pat) ==
    LET src == Get(pat, "points", <<>>)
        valid == SelectSeq(src, LAMBDA pt : IsPair(pt) \/ IsDict(pt))
    IN  [k \in 1..Len(valid) |->
            IF IsDict(valid[k]) /\ "color" \in DOMAIN valid[k]
            THEN valid[k].color
            ELSE Get(pat, "color", White)]

\* per pattern that has points
EntryColours(scene_entry) ==
    LET src == Get(scene_entry, "patterns", <<>>)
    IN  SelectSeq([k \in 1..Len(src) |-> OwnColours(src[k])], LAMBDA cs : cs # <<>>)

SceneColours(scene) ==
    [j \in 1..Len(scene.patterns) |->
        [q \in 1..Len(scene.patterns[j].points) |-> scene.patterns[j].points[q].color]]

\* C30: in a scene ingested by scene_from_simple_entry a keyed point's colour
\* applies to that point only: a later point without a colour of its own has
\* the colour of the pattern, or white if the pattern has none.
C30_ColourOverrideLocal ==
    (cli \in {"simple", "ingested"} /\ "scenes" \in DOMAIN data) =>
        \A k \in 1..Len(scenes) : SceneColours(scenes[k]) = EntryColours(data.scenes[k])

====
